---- MODULE Spec2Model ----
(***************************************************************************)
(* A model of the monitoring scaffolding of QuCumber's energy experiment:  *)
(*   - qucumber/callbacks/observable_evaluator.py: ObservableEvaluator     *)
(*   - Energy.py: trainEnergy (training run and trial record) and          *)
(*     analysis (reading the trial records back)                           *)
(* Strings of the program (file names, lines of a record) are sequences of *)
(* one-character strings; floats are integers counting millionths, or the  *)
(* tokens Inf and NaN.                                                      *)
(***************************************************************************)
EXTENDS Integers, Sequences, FiniteSets, TLC

VARIABLES
    \* ---- the ObservableEvaluator instance and the objects it refers to
    evaluator,      \* the instance's attributes, as __init__ sets them
    heap,           \* the dictionaries the instance refers to, by reference
    epoch,          \* the epoch the training loop last finished
    fitError,       \* the exception that ended the current fit, or "None"
    measured,       \* number of calls of System.measure so far
    inOrder,        \* the current run started from an empty history and no
                    \* clear_history happened during it
    calls, ops,     \* counters that bound the exploration
    \* ---- trainEnergy and analysis
    pc,             \* where trainEnergy or analysis stands
    args,           \* the arguments trainEnergy was called with
    metric,         \* callbacks[1], the MetricEvaluator: its history
    timer,          \* callbacks[2], the Timer: start time and epochTimes
    clock,          \* wall-clock time
    stop_training,  \* the flag the Timer sets and the training loop reads
    locals,         \* the local variables of trainEnergy or of analysis
    dir,            \* the directory Data/Energy/Q<numQubits>: name -> text
    error           \* the exception that ended trainEnergy or analysis

evalVars == <<evaluator, heap, epoch, fitError, measured, inOrder, calls, ops>>

fileVars == <<pc, args, metric, timer, clock, stop_training, locals, dir, error>>

vars == <<evalVars, fileVars>>

-----------------------------------------------------------------------------
(* Bounds of the exploration *)

MaxEpoch == 4       \* epochs of one fit of the evaluator's life cycle
MaxCalls == 5       \* on_epoch_end calls over the evaluator's whole life
MaxOps == 2         \* client operations on the evaluator between the calls:
                    \* a further fit, clear_history, a write to last
epochs == 3         \* the epochs trainEnergy asks fit for (1000 in Energy.py,
                    \* line 52; explored with a small number)
MaxTime == 4        \* largest time budget mT explored
NumTrials == 2      \* the trials analysis reads (27 in Energy.py, line 152:
                    \* range(1,28); explored with a small number)
TargetIndex == 1    \* the row analysis takes the runtime of (10 in
                    \* Energy.py, line 177; explored with a small number)

-----------------------------------------------------------------------------
(* Python helpers *)

\* Python's a % b for b # 0: the result has the sign of b.
PyMod(a, b) == IF b > 0 THEN a % b ELSE -((-a) % (-b))

\* s[i] of Python for a sequence s: 0-based, negative i counts from the end.
InRange(s, i) == (-Len(s)) <= i /\ i < Len(s)
PyIndex(s, i) == IF i >= 0 THEN s[i + 1] ELSE s[Len(s) + i + 1]

\* The result of an expression that may raise.
Ok(v) == [err |-> "None", val |-> v]
Raise(e) == [err |-> e]
SameResult(a, b) == a.err = b.err /\ (a.err = "None" => a.val = b.val)

EmptyDict == [k \in {} |-> 0]
SetItem(d, k, v) == [x \in DOMAIN d \cup {k} |-> IF x = k THEN v ELSE d[x]]
GetItem(d, k) == IF k \in DOMAIN d THEN Ok(d[k]) ELSE Raise("KeyError")

\* The heap maps the references of the live dictionaries to their contents.
Fresh(refs) == CHOOSE r \in 1..(Cardinality(refs) + 1) : r \notin refs
Store(h, r, d) == [x \in DOMAIN h \cup {r} |-> IF x = r THEN d ELSE h[x]]

-----------------------------------------------------------------------------
(* ObservableEvaluator *)

\* Names of the observables System.measure reports on.
ObsNames == {"Heisenberg1DEnergy"}
\* Names a client may ask for.
AskNames == ObsNames \cup {"Magnetization"}

\* The statistics of one observable: millionths.
Stats == {[mean |-> -3500049, variance |-> 250005, std_error |-> 15815],
          [mean |-> -3987650, variance |-> 12345, std_error |-> 3514]}

\* System.measure(nn_state, **sampling_kwargs): what sampling may return.
Measure(nn_state) == [ObsNames -> Stats]

Periods == {-2, -1, 0, 1, 2}

\* No argument given for index.
None == <<>>

__init__(period, observables, verbose, sampling_kwargs) ==
    /\ evaluator = [period |-> period,
                    observables |-> observables,
                    observable_statistics |-> <<>>,
                    system |-> observables,
                    last |-> 1,
                    verbose |-> verbose,
                    sampling_kwargs |-> sampling_kwargs]
    /\ heap = Store(EmptyDict, 1, EmptyDict)

\* The dictionaries an evaluator with attributes ev refers to; the others are
\* freed.
Refs(ev) ==
    {ev.last} \cup {ev.observable_statistics[i][2] :
                       i \in 1..Len(ev.observable_statistics)}
Collect(ev, h) == [r \in Refs(ev) |-> h[r]]

__len__ ==
    IF "metric_values" \in DOMAIN evaluator
    THEN Ok(Len(evaluator.metric_values))
    ELSE Raise("AttributeError")

clear_history ==
    LET new == Fresh(DOMAIN heap)
        ev == [evaluator EXCEPT !.observable_statistics = <<>>, !.last = new]
    IN  /\ evaluator' = ev
        /\ heap' = Collect(ev, Store(heap, new, EmptyDict))

\* get_value with the oldest entry as the default instead of the latest
get_value_default_first(name, index) ==
    LET idx == IF index # None THEN index[1] ELSE 0
        stats == evaluator.observable_statistics
    IN  IF ~InRange(stats, idx) THEN Raise("IndexError")
        ELSE GetItem(heap[PyIndex(PyIndex(stats, idx), -1)], name)

get_value(name, index) ==
    LET idx == IF index # None THEN index[1] ELSE -1
        stats == evaluator.observable_statistics
    IN  IF ~InRange(stats, idx) THEN Raise("IndexError")
        ELSE GetItem(heap[PyIndex(PyIndex(stats, idx), -1)], name)

\* The history with each entry's dictionary written out.
HistoryOf(ev, h) ==
    [i \in 1..Len(ev.observable_statistics) |->
        <<ev.observable_statistics[i][1], h[ev.observable_statistics[i][2]]>>]
History == HistoryOf(evaluator, heap)

\* self.last[name]
last_value(name) == GetItem(heap[evaluator.last], name)

\* on_epoch_end that counts the epochs from 0
on_epoch_end_shifted(nn_state, ep) ==
    IF evaluator.period = 0
    THEN /\ fitError' = "ZeroDivisionError"
         /\ UNCHANGED <<evaluator, heap, measured>>
    ELSE IF PyMod(ep - 1, evaluator.period) = 0
    THEN \E result \in Measure(nn_state) :
            LET obs_vals == Fresh(DOMAIN heap)
                copy == Fresh(DOMAIN heap \cup {obs_vals})
                ev == [evaluator EXCEPT
                         !.last = copy,
                         !.observable_statistics = Append(@, <<ep, obs_vals>>)]
            IN  /\ measured' = measured + 1
                /\ evaluator' = ev
                /\ heap' = Collect(ev, Store(Store(heap, obs_vals, result),
                                             copy, result))
                /\ fitError' = "None"
    ELSE /\ fitError' = "None"
         /\ UNCHANGED <<evaluator, heap, measured>>

\* on_epoch_end that keeps obs_vals itself in last, not a copy
on_epoch_end_alias(nn_state, ep) ==
    IF evaluator.period = 0
    THEN /\ fitError' = "ZeroDivisionError"
         /\ UNCHANGED <<evaluator, heap, measured>>
    ELSE IF PyMod(ep, evaluator.period) = 0
    THEN \E result \in Measure(nn_state) :
            LET obs_vals == Fresh(DOMAIN heap)
                ev == [evaluator EXCEPT
                         !.last = obs_vals,
                         !.observable_statistics = Append(@, <<ep, obs_vals>>)]
            IN  /\ measured' = measured + 1
                /\ evaluator' = ev
                /\ heap' = Collect(ev, Store(heap, obs_vals, result))
                /\ fitError' = "None"
    ELSE /\ fitError' = "None"
         /\ UNCHANGED <<evaluator, heap, measured>>

\* on_epoch_end that measures before it looks at the period
on_epoch_end_measure_first(nn_state, ep) ==
    \E result \in Measure(nn_state) :
        IF evaluator.period = 0
        THEN /\ measured' = measured + 1
             /\ fitError' = "ZeroDivisionError"
             /\ UNCHANGED <<evaluator, heap>>
        ELSE IF PyMod(ep, evaluator.period) = 0
        THEN LET obs_vals == Fresh(DOMAIN heap)
                 copy == Fresh(DOMAIN heap \cup {obs_vals})
                 ev == [evaluator EXCEPT
                          !.last = copy,
                          !.observable_statistics = Append(@, <<ep, obs_vals>>)]
             IN  /\ measured' = measured + 1
                 /\ evaluator' = ev
                 /\ heap' = Collect(ev, Store(Store(heap, obs_vals, result),
                                              copy, result))
                 /\ fitError' = "None"
        ELSE /\ measured' = measured + 1
             /\ fitError' = "None"
             /\ UNCHANGED <<evaluator, heap>>

on_epoch_end(nn_state, ep) ==
    IF evaluator.period = 0
    THEN /\ fitError' = "ZeroDivisionError"
         /\ UNCHANGED <<evaluator, heap, measured>>
    ELSE IF PyMod(ep, evaluator.period) = 0
    THEN \E result \in Measure(nn_state) :
            LET obs_vals == Fresh(DOMAIN heap)
                copy == Fresh(DOMAIN heap \cup {obs_vals})
                ev == [evaluator EXCEPT
                         !.last = copy,
                         !.observable_statistics = Append(@, <<ep, obs_vals>>)]
            IN  /\ measured' = measured + 1
                /\ evaluator' = ev
                /\ heap' = Collect(ev, Store(Store(heap, obs_vals, result),
                                             copy, result))
                /\ fitError' = "None"
    ELSE /\ fitError' = "None"
         /\ UNCHANGED <<evaluator, heap, measured>>

\* In the evaluator's own life cycle no experiment is running.
NoFiles ==
    /\ pc = "none" /\ args = <<>> /\ metric = <<>> /\ timer = <<>>
    /\ clock = 0 /\ stop_training = FALSE /\ locals = <<>>
    /\ dir = <<>> /\ error = "None"

-----------------------------------------------------------------------------
(* The life cycle of one evaluator: fits call on_epoch_end once per epoch,  *)
(* the client may clear the history and write to the dictionary in last.    *)

InitEval ==
    /\ \E p \in Periods :
         __init__(p, <<"Heisenberg1DEnergy">>, FALSE, <<>>)
    /\ epoch = 0
    /\ fitError = "None"
    /\ measured = 0
    /\ inOrder = TRUE
    /\ calls = 0 /\ ops = 0
    /\ NoFiles

EpochEnd ==
    /\ fitError = "None"
    /\ epoch < MaxEpoch
    /\ calls < MaxCalls
    /\ epoch' = epoch + 1
    /\ calls' = calls + 1
    /\ on_epoch_end("nn_state", epoch + 1)
    /\ UNCHANGED <<inOrder, ops, fileVars>>

NewFit ==
    /\ ops < MaxOps
    /\ ops' = ops + 1
    /\ epoch' = 0
    /\ fitError' = "None"
    /\ inOrder' = (evaluator.observable_statistics = <<>>)
    /\ UNCHANGED <<evaluator, heap, measured, calls, fileVars>>

ClearHistory ==
    /\ ops < MaxOps
    /\ ops' = ops + 1
    /\ clear_history
    /\ inOrder' = (epoch = 0)
    /\ UNCHANGED <<epoch, fitError, measured, calls, fileVars>>

\* evaluator.last[name] = v, by a client holding the evaluator
ModifyLast ==
    /\ ops < MaxOps
    /\ ops' = ops + 1
    /\ \E name \in AskNames, v \in Stats :
         heap' = [heap EXCEPT ![evaluator.last] = SetItem(@, name, v)]
    /\ UNCHANGED <<evaluator, epoch, fitError, measured, inOrder, calls,
                   fileVars>>

NextCalls == EpochEnd \/ NewFit \/ ClearHistory
NextEval == NextCalls \/ ModifyLast

SpecCalls == InitEval /\ [][NextCalls]_vars
SpecEval == InitEval /\ [][NextEval]_vars

-----------------------------------------------------------------------------
(* Python text: a str is a sequence of one-character strings *)

Max(S) == CHOOSE x \in S : \A y \in S : y <= x
Abs(x) == IF x < 0 THEN -x ELSE x
Pow10(n) == <<1, 10, 100, 1000, 10000, 100000, 1000000, 10000000,
              100000000, 1000000000>>[n + 1]

DigitChars == <<"0", "1", "2", "3", "4", "5", "6", "7", "8", "9">>
\* char.isdigit()
IsDigit(c) == \E d \in 1..10 : DigitChars[d] = c
\* int(char) of a digit
DigitVal(c) == (CHOOSE d \in 1..10 : DigitChars[d] = c) - 1
AllDigits(s) == \A i \in 1..Len(s) : IsDigit(s[i])

\* int(s) of a string of digits (0 for the empty string)
RECURSIVE NatVal(_)
NatVal(s) ==
    IF s = <<>> THEN 0
    ELSE 10 * NatVal(SubSeq(s, 1, Len(s) - 1)) + DigitVal(s[Len(s)])

\* str(n) of an int
RECURSIVE NatStr(_)
NatStr(n) ==
    IF n < 10 THEN <<DigitChars[n + 1]>>
    ELSE NatStr(n \div 10) \o <<DigitChars[(n % 10) + 1]>>
IntStr(n) == IF n < 0 THEN <<"-">> \o NatStr(-n) ELSE NatStr(n)

\* The positions of character c in s, and the k-th of them.
Positions(s, c) == {i \in 1..Len(s) : s[i] = c}
NthPosition(pos, k) == CHOOSE p \in pos : Cardinality({q \in pos : q < p}) = k - 1

\* s.split(c) for a one-character separator c: the pieces between the
\* separators, empty ones included.
Split(s, c) ==
    LET pos == Positions(s, c)
        n == Cardinality(pos)
    IN  [k \in 1..(n + 1) |->
            SubSeq(s,
                   IF k = 1 THEN 1 ELSE NthPosition(pos, k - 1) + 1,
                   IF k = n + 1 THEN Len(s) ELSE NthPosition(pos, k) - 1)]

\* s.strip(c): c removed from both ends.
Strip(s, c) ==
    LET keep == {i \in 1..Len(s) : s[i] # c}
    IN  IF keep = {} THEN <<>>
        ELSE SubSeq(s, CHOOSE i \in keep : \A j \in keep : i <= j, Max(keep))

\* file.readlines(): the lines of a text, each with its line end.
ReadLines(text) ==
    LET pieces == Split(text, "\n")
        n == Len(pieces) - 1
    IN  [k \in 1..(IF pieces[n + 1] = <<>> THEN n ELSE n + 1) |->
            IF k <= n THEN pieces[k] \o <<"\n">> ELSE pieces[k]]

-----------------------------------------------------------------------------
(* Python floats: a finite float is a number of millionths *)

\* The finest rounding of the program: round(float(relativeErrors[i]), 6).
Decimals == 6
Unit == Pow10(Decimals)

Fin(x) == [kind |-> "fin", v |-> x]
Inf == [kind |-> "inf", v |-> 0]
NegInf == [kind |-> "inf", v |-> -1]
NaN == [kind |-> "nan", v |-> 0]

\* round(f, nd): to the nearest multiple of 10^-nd, a tie to the even one.
Round(f, nd) ==
    IF f.kind # "fin" THEN f
    ELSE LET q == Pow10(Decimals - nd)
             a == Abs(f.v)
             lo == a \div q
             r == a - lo * q
             n == IF 2 * r > q \/ (2 * r = q /\ lo % 2 = 1) THEN lo + 1 ELSE lo
         IN  Fin((IF f.v < 0 THEN -1 ELSE 1) * n * q)

\* s without its trailing "0" characters
RECURSIVE DropZeros(_)
DropZeros(s) ==
    IF s # <<>> /\ s[Len(s)] = "0" THEN DropZeros(SubSeq(s, 1, Len(s) - 1)) ELSE s

\* The last w digits of n, with "0" on the left where n has fewer.
Padded(n, w) == [i \in 1..w |-> DigitChars[((n \div Pow10(w - i)) % 10) + 1]]

\* str(f) of a float: the shortest decimal, "0.001", "12.5", "1.0"; below
\* 0.0001 the exponent form, "5e-05", "1.2e-05".
FloatStr(f) ==
    IF f.kind = "nan" THEN <<"n", "a", "n">>
    ELSE IF f.kind = "inf"
    THEN (IF f.v < 0 THEN <<"-">> ELSE <<>>) \o <<"i", "n", "f">>
    ELSE LET a == Abs(f.v)
             sign == IF f.v < 0 THEN <<"-">> ELSE <<>>
             frac == DropZeros(Padded(a % Unit, Decimals))
             digits == NatStr(a)
             rest == DropZeros(Tail(digits))
         IN  IF a = 0 \/ a >= Pow10(Decimals - 4)
             THEN sign \o NatStr(a \div Unit) \o <<".">>
                       \o (IF frac = <<>> THEN <<"0">> ELSE frac)
             ELSE sign \o <<digits[1]>>
                       \o (IF rest = <<>> THEN <<>> ELSE <<".">> \o rest)
                       \o <<"e", "-">> \o Padded(Decimals - (Len(digits) - 1), 2)

\* float(s): the value of a decimal literal with an optional sign, fraction
\* and exponent, or of "inf" and "nan"; ValueError for anything else.
ParseFloat(s) ==
    LET signed == s # <<>> /\ s[1] \in {"-", "+"}
        body == IF signed THEN Tail(s) ELSE s
        epos == Positions(body, "e")
        mant == IF epos = {} THEN body ELSE SubSeq(body, 1, Max(epos) - 1)
        expo == IF epos = {} THEN <<>> ELSE SubSeq(body, Max(epos) + 1, Len(body))
        esigned == expo # <<>> /\ expo[1] \in {"-", "+"}
        edigits == IF esigned THEN Tail(expo) ELSE expo
        dot == Positions(mant, ".")
        ip == IF dot = {} THEN mant ELSE SubSeq(mant, 1, Max(dot) - 1)
        fp == IF dot = {} THEN <<>> ELSE SubSeq(mant, Max(dot) + 1, Len(mant))
        e == (IF esigned /\ expo[1] = "-" THEN -1 ELSE 1) * NatVal(edigits)
        scale == Decimals - Len(fp) + e
        n == NatVal(ip \o fp)
        a == IF scale >= 0 THEN n * Pow10(scale) ELSE n \div Pow10(-scale)
    IN  IF body = <<"n", "a", "n">> THEN Ok(NaN)
        ELSE IF body = <<"i", "n", "f">>
        THEN Ok(IF signed /\ s[1] = "-" THEN NegInf ELSE Inf)
        ELSE IF /\ AllDigits(ip) /\ AllDigits(fp) /\ Len(ip) + Len(fp) >= 1
                /\ epos = {} \/ (edigits # <<>> /\ AllDigits(edigits))
        THEN Ok(Fin(IF signed /\ s[1] = "-" THEN -a ELSE a))
        ELSE Raise("ValueError")

-----------------------------------------------------------------------------
(* Values of the experiment *)

\* A Python value that is an int or a str, as trialNum is.
PyInt(n) == [type |-> "int", int |-> n, str |-> <<>>]
PyStr(t) == [type |-> "str", int |-> 0, str |-> t]
\* "{0}".format(x)
Format(x) == IF x.type = "int" THEN IntStr(x.int) ELSE x.str

Next_ == PyStr(<<"N", "e", "x", "t">>)

\* The file names of a trial: "Trial{1}.txt" of open and the "Trial{1}" of
\* savefig, which matplotlib completes with ".png".
Txt == <<".", "t", "x", "t">>
Png == <<".", "p", "n", "g">>
TrialName(trialNum, ext) == <<"T", "r", "i", "a", "l">> \o Format(trialNum) \o ext
RTCompareName == <<"R", "T", "C", "o", "m", "p", "a", "r", "e">> \o Png

\* What savefig leaves in a file.
Figure == <<"f", "i", "g">>

\* open(name, "w"), write, close
WriteFile(d, name, text) ==
    [n \in DOMAIN d \cup {name} |-> IF n = name THEN text ELSE d[n]]

SamplesLabel == <<"s", "a", "m", "p", "l", "e", "s", ":", " ">>
BurnInLabel == <<"b", "u", "r", "n", "_", "i", "n", ":", " ">>
StepsLabel == <<"s", "t", "e", "p", "s", ":", " ">>
HeaderRow ==
    <<"F", "i", "d", "e", "l", "i", "t", "i", "e", "s", " ", "&", " ",
      "R", "O", "E", " ", "&", " ", "R", "T", " ", "&", " ",
      "M", "e", "a", "n", " ", "&", " ",
      "V", "a", "r", "i", "a", "n", "c", "e", " ", "&", " ",
      "S", "T", "D", " ", "E", "r", "r", "o", "r", "\n">>
Sep == <<" ", " ">>

\* The digits each column of a data row is rounded to.
RoundDigits == <<3, 6, 3, 5, 5, 5>>

\* The data rows are written field after field, row after row; the write
\* number m (from 0) is field (m % 6) + 1 of row (m \div 6) + 1. The first
\* write whose list has no such element raises IndexError: WritesDone is the
\* number of writes before it, of the 6 * n writes of n rows.
WritesDone(cols, n) ==
    LET missing == {m \in 0..(6 * n - 1) : (m \div 6) + 1 > Len(cols[(m % 6) + 1])}
    IN  IF missing = {} THEN 6 * n
        ELSE CHOOSE m \in missing : \A x \in missing : m <= x

\* The text of the writes m, m + 1, ... below w.
RECURSIVE WriteFields(_, _, _)
WriteFields(cols, m, w) ==
    IF m >= w THEN <<>>
    ELSE FloatStr(Round(cols[(m % 6) + 1][(m \div 6) + 1],
                        RoundDigits[(m % 6) + 1]))
         \o Sep
         \o (IF m % 6 = 5 THEN <<"\n">> ELSE <<>>)
         \o WriteFields(cols, m + 1, w)

\* The text of the three configuration lines and the header row.
RecordHead(numSamples2, burn_in, steps) ==
    SamplesLabel \o IntStr(numSamples2) \o <<"\n">>
    \o BurnInLabel \o IntStr(burn_in) \o <<"\n">>
    \o StepsLabel \o IntStr(steps) \o <<"\n">>
    \o HeaderRow

\* RecordText that leaves the last recorded iteration out
RecordText_short(numSamples2, burn_in, steps, fidelities, relativeErrors, runtimes, energies, variance, errors) ==
    LET cols == <<fidelities, relativeErrors, runtimes, energies, variance, errors>>
        n == IF fidelities = <<>> THEN 0 ELSE Len(fidelities) - 1
    IN  [text |-> RecordHead(numSamples2, burn_in, steps)
                  \o WriteFields(cols, 0, WritesDone(cols, n)),
         err |-> IF WritesDone(cols, n) = 6 * n THEN "None" ELSE "IndexError"]

\* The text trainEnergy writes into the trial record (lines 131-143), and the
\* exception that ends the writing, if any.
RecordText(numSamples2, burn_in, steps, fidelities, relativeErrors, runtimes, energies, variance, errors) ==
    LET cols == <<fidelities, relativeErrors, runtimes, energies, variance, errors>>
        n == Len(fidelities)
    IN  [text |-> RecordHead(numSamples2, burn_in, steps)
                  \o WriteFields(cols, 0, WritesDone(cols, n)),
         err |-> IF WritesDone(cols, n) = 6 * n THEN "None" ELSE "IndexError"]

\* abs(energy - H) / abs(H) of numpy floats: H is a number of hundredths, a
\* zero H gives inf (nan for 0 / 0). The quotient is taken to the nearest
\* millionth.
RelativeError(energy, H) ==
    IF H = 0 THEN (IF energy.v = 0 THEN NaN ELSE Inf)
    ELSE LET d == Abs(energy.v - H) * 100
             h == Abs(H) \div Pow10(Decimals - 2)
             q == d \div h
         IN  Fin(IF 2 * (d - q * h) >= h THEN q + 1 ELSE q)

-----------------------------------------------------------------------------
(* trainEnergy *)

log_every == 1

\* callbacks[0].<name>.<field>: the series of one statistic over the history.
ObservableSeries(name, field) ==
    [i \in 1..Len(History) |-> Fin(History[i][2][name][field])]
\* callbacks[1].Fidelity
MetricSeries == [i \in 1..Len(metric) |-> Fin(metric[i][2])]

\* ts.fidelity of the state after each epoch, in millionths: the state the
\* optimiser reaches is a function of the data and the epoch.
Fidelity(nn_state, ep) ==
    <<912345, 961200, 987650, 998500, 999125, 999500>>[ep]
\* What an epoch may cost, in ticks of the clock.
EpochCosts == {1, 2}
\* The reference energies of Observables.txt, rounded to 2 digits.
References == {-4000000, 0}

\* The directories trainEnergy may find: the trials with the given ids, each
\* with its record and its plot.
OldRecord ==
    RecordText(1000, 100, 100, <<>>, <<>>, <<>>, <<>>, <<>>, <<>>).text
DirOf(ids) ==
    LET names == {TrialName(PyInt(i), e) : i \in ids, e \in {Txt, Png}}
    IN  [n \in names |-> IF SubSeq(n, Len(n) - 3, Len(n)) = Txt
                         THEN OldRecord ELSE Figure]
TrialSets == {{}, {1, 2, 3}, {3, 12}}
\* The time budgets mT explored.
TimeBudgets == {2, MaxTime}
TrialNums == {Next_, PyInt(2)}

\* The digits loop of trainEnergy: trial after the characters of prevFile
\* from position i on.
RECURSIVE TrialLoop(_, _, _)
TrialLoop(prevFile, i, trial) ==
    IF i > Len(prevFile) THEN trial
    ELSE TrialLoop(prevFile, i + 1,
                   IF IsDigit(prevFile[i]) THEN DigitVal(prevFile[i]) + 1
                   ELSE trial)

NoLocals ==
    [energies |-> <<>>, errors |-> <<>>, variance |-> <<>>, H |-> 0,
     files |-> {}, trial |-> -1,
     fidelities |-> <<>>, runtimes |-> <<>>, relativeErrors |-> <<>>]

\* trainEnergy up to the call of fit (lines 40-79).
InitTrain ==
    /\ \E mT \in TimeBudgets, trialNum \in TrialNums :
         args = [numSamples2 |-> 1000, burn_in |-> 100, steps |-> 100,
                 mT |-> mT, trialNum |-> trialNum]
    /\ __init__(log_every, << <<"Heisenberg1DEnergy">> >>, TRUE,
                [num_samples |-> 1000, burn_in |-> 100, steps |-> 100])
    /\ epoch = 0 /\ fitError = "None" /\ measured = 0 /\ inOrder = TRUE
    /\ calls = 0 /\ ops = 0
    /\ metric = <<>>
    /\ timer = [start |-> 0, epochTimes |-> <<>>]
    /\ clock = 0
    /\ stop_training = FALSE
    /\ locals = NoLocals
    /\ \E ids \in TrialSets : dir = DirOf(ids)
    /\ pc = "fit"
    /\ error = "None"

\* One epoch of fit: the training step, then the callbacks in their order.
FitEpoch ==
    /\ pc = "fit"
    /\ epoch < epochs
    /\ ~stop_training
    /\ epoch' = epoch + 1
    /\ \E cost \in EpochCosts : clock' = clock + cost
    /\ on_epoch_end("nn_state", epoch')
    /\ metric' = IF epoch' % log_every = 0
                 THEN Append(metric, <<epoch', Fidelity("nn_state", epoch')>>)
                 ELSE metric
    /\ IF epoch' % log_every = 0
       THEN /\ timer' = [timer EXCEPT
                           !.epochTimes = Append(@, clock' - timer.start)]
            /\ stop_training' = (clock' - timer.start >= args.mT)
       ELSE UNCHANGED <<timer, stop_training>>
    /\ UNCHANGED <<inOrder, calls, ops, pc, args, locals, dir, error>>

\* fit returns; lines 91-101.
FitReturn ==
    /\ pc = "fit"
    /\ epoch = epochs \/ stop_training
    /\ \E H \in References :
         locals' = [locals EXCEPT
                      !.energies = ObservableSeries("Heisenberg1DEnergy", "mean"),
                      !.errors = ObservableSeries("Heisenberg1DEnergy", "std_error"),
                      !.variance = ObservableSeries("Heisenberg1DEnergy", "variance"),
                      !.H = H]
    /\ pc' = "number"
    /\ UNCHANGED <<evalVars, args, metric, timer, clock, stop_training, dir, error>>

\* Lines 103-109. os.listdir gives the names in an order of its own, so any
\* name may be the last one.
NumberTrial ==
    /\ pc = "number"
    /\ IF args.trialNum # Next_
       THEN /\ locals' = [locals EXCEPT !.files = DOMAIN dir]
            /\ pc' = "plot"
            /\ error' = error
       ELSE IF DOMAIN dir = {}
       THEN /\ locals' = [locals EXCEPT !.files = DOMAIN dir]
            /\ pc' = "failed"
            /\ error' = "IndexError"
       ELSE \E prevFile \in DOMAIN dir :
            /\ locals' = [locals EXCEPT !.files = DOMAIN dir,
                                        !.trial = TrialLoop(prevFile, 1, 0)]
            /\ pc' = "plot"
            /\ error' = error
    /\ UNCHANGED <<evalVars, args, metric, timer, clock, stop_training, dir>>

\* Lines 111-123.
SavePlot ==
    /\ pc = "plot"
    /\ dir' = WriteFile(dir, TrialName(args.trialNum, Png), Figure)
    /\ pc' = "write"
    /\ UNCHANGED <<evalVars, args, metric, timer, clock, stop_training,
                   locals, error>>

\* Lines 125-143.
WriteRecord ==
    /\ pc = "write"
    /\ \E fidelities \in {MetricSeries},
          runtimes \in {[i \in 1..Len(timer.epochTimes) |->
                           Fin(timer.epochTimes[i] * Unit)]},
          relativeErrors \in {[i \in 1..Len(locals.energies) |->
                                 RelativeError(locals.energies[i], locals.H)]} :
         \E written \in {RecordText(args.numSamples2, args.burn_in, args.steps,
                                    fidelities, relativeErrors, runtimes,
                                    locals.energies, locals.variance,
                                    locals.errors)} :
            /\ locals' = [locals EXCEPT !.fidelities = fidelities,
                                        !.runtimes = runtimes,
                                        !.relativeErrors = relativeErrors]
            /\ dir' = WriteFile(dir, TrialName(args.trialNum, Txt), written.text)
            /\ error' = written.err
            /\ pc' = IF written.err = "None" THEN "done" ELSE "failed"
    /\ UNCHANGED <<evalVars, args, metric, timer, clock, stop_training>>

NextTrain == FitEpoch \/ FitReturn \/ NumberTrial \/ SavePlot \/ WriteRecord
SpecTrain == InitTrain /\ [][NextTrain]_vars

-----------------------------------------------------------------------------
(* analysis *)

\* analysis builds no evaluator.
NoEvaluator ==
    /\ evaluator = <<>> /\ heap = <<>> /\ epoch = 0 /\ fitError = "None"
    /\ measured = 0 /\ inOrder = TRUE /\ calls = 0 /\ ops = 0

\* The statistics of the k-th recorded iteration of a stored run.
StatsOf(k) ==
    CHOOSE s \in Stats : (\A t \in Stats : s.mean <= t.mean) <=> (k % 2 = 1)

\* The data of a run of n recorded iterations, as trainEnergy holds it when
\* it writes the record: the run v = 2 has a reference energy of 0.
Run(v, n) ==
    LET H == IF v = 1 THEN -4000000 ELSE 0
    IN  [numSamples2 |-> 1000 \div v, burn_in |-> 100 \div v, steps |-> 100 * v,
         fidelities |-> [k \in 1..n |-> Fin(Fidelity("nn_state", k + v - 1))],
         relativeErrors |->
             [k \in 1..n |-> RelativeError(Fin(StatsOf(k + v).mean), H)],
         runtimes |-> [k \in 1..n |-> Fin(k * Unit + v * 123456)],
         energies |-> [k \in 1..n |-> Fin(StatsOf(k + v).mean)],
         variance |-> [k \in 1..n |-> Fin(StatsOf(k + v).variance)],
         errors |-> [k \in 1..n |-> Fin(StatsOf(k + v).std_error)]]
Runs == {Run(1, TargetIndex + 1), Run(2, TargetIndex + 1), Run(1, TargetIndex)}

\* The record trainEnergy writes from the data of a run.
RecordOf(r) ==
    RecordText(r.numSamples2, r.burn_in, r.steps, r.fidelities,
               r.relativeErrors, r.runtimes, r.energies, r.variance,
               r.errors).text

\* The fields of a line: its pieces between white space.
FieldsOf(line) == SelectSeq(Split(Strip(line, "\n"), " "), LAMBDA t : t # <<>>)

RECURSIVE Join(_, _)
Join(pieces, sep) ==
    IF pieces = <<>> THEN <<>>
    ELSE Head(pieces) \o sep \o Join(Tail(pieces), sep)
RECURSIVE Concat(_)
Concat(pieces) ==
    IF pieces = <<>> THEN <<>> ELSE Head(pieces) \o Concat(Tail(pieces))

\* Records that something else than trainEnergy left: the last row of a
\* written record loses its sixth field ("five"), keeps only its first one
\* with no separator ("one"), has a word for its runtime ("word"), or has
\* its fields separated by one space ("single").
Kinds == {"five", "one", "word", "single"}
Corrupt(text, kind) ==
    LET lines == ReadLines(text)
        n == Len(lines)
        fields == FieldsOf(lines[n])
        row == CASE kind = "five" -> Join(SubSeq(fields, 1, 5), Sep)
                 [] kind = "one" -> fields[1]
                 [] kind = "word" ->
                      Join([fields EXCEPT ![3] = <<"a", "b", "c">>], Sep)
                 [] kind = "single" -> Join(fields, <<" ">>)
    IN  Concat(SubSeq(lines, 1, n - 1)) \o row \o <<"\n">>

Files ==
    {RecordOf(r) : r \in Runs}
    \cup {Corrupt(RecordOf(Run(1, TargetIndex + 1)), k) : k \in Kinds}
Missing == <<>>

\* lines[j].strip("\n").split(" ")[1]
HeadValue(line) ==
    LET t == Split(Strip(line, "\n"), " ")
    IN  IF Len(t) > 1 THEN Ok(t[2]) ELSE Raise("IndexError")

\* ParseRow that first makes sure of six numeric fields
ParseRow_six(line) ==
    LET newline == Split(Strip(line, "\n"), " ")
        fields == FieldsOf(line)
        Item(k) == IF InRange(newline, k) THEN ParseFloat(PyIndex(newline, k))
                   ELSE Raise("IndexError")
    IN  IF Len(fields) # 6
           \/ \E k \in 1..Len(fields) : ParseFloat(fields[k]).err # "None"
        THEN Raise("ValueError")
        ELSE IF Item(0).err # "None" THEN Raise(Item(0).err)
        ELSE IF Item(2).err # "None" THEN Raise(Item(2).err)
        ELSE IF Item(4).err # "None" THEN Raise(Item(4).err)
        ELSE Ok(<<Item(0).val, Item(2).val, Item(4).val>>)

\* ParseRow that takes the first three pieces of the line
ParseRow_adjacent(line) ==
    LET newline == Split(Strip(line, "\n"), " ")
        Item(k) == IF InRange(newline, k) THEN ParseFloat(PyIndex(newline, k))
                   ELSE Raise("IndexError")
    IN  IF Item(0).err # "None" THEN Raise(Item(0).err)
        ELSE IF Item(1).err # "None" THEN Raise(Item(1).err)
        ELSE IF Item(2).err # "None" THEN Raise(Item(2).err)
        ELSE Ok(<<Item(0).val, Item(1).val, Item(2).val>>)

\* Lines 166-169: float(newline[0]), float(newline[2]), float(newline[4]).
ParseRow(line) ==
    LET newline == Split(Strip(line, "\n"), " ")
        Item(k) == IF InRange(newline, k) THEN ParseFloat(PyIndex(newline, k))
                   ELSE Raise("IndexError")
    IN  IF Item(0).err # "None" THEN Raise(Item(0).err)
        ELSE IF Item(2).err # "None" THEN Raise(Item(2).err)
        ELSE IF Item(4).err # "None" THEN Raise(Item(4).err)
        ELSE Ok(<<Item(0).val, Item(2).val, Item(4).val>>)

HeadList == <<"samples", "burn_in", "steps">>

\* The loop over the lines of one record (lines 158-169), from line j on.
RECURSIVE LinesLoop(_, _, _)
LinesLoop(lines, j, acc) ==
    IF j >= Len(lines) THEN acc
    ELSE IF j <= 2
    THEN LET v == HeadValue(lines[j + 1])
         IN  IF v.err # "None" THEN [acc EXCEPT !.err = v.err]
             ELSE LinesLoop(lines, j + 1,
                            [acc EXCEPT ![HeadList[j + 1]] = Append(@, v.val)])
    ELSE IF j > 3
    THEN LET row == ParseRow(lines[j + 1])
         IN  IF row.err # "None" THEN [acc EXCEPT !.err = row.err]
             ELSE LinesLoop(lines, j + 1,
                            [acc EXCEPT
                               !.fidelitiesList = Append(@, row.val[1]),
                               !.errorsList = Append(@, row.val[2]),
                               !.runtimesList = Append(@, row.val[3])])
    ELSE LinesLoop(lines, j + 1, acc)

\* analysis before its first trial (lines 146-151); i is the trial of the
\* loop of line 152, NumTrials + 1 once the loop is over.
InitAnalysis ==
    /\ NoEvaluator
    /\ args = [numQubits |-> 2]
    /\ metric = <<>> /\ timer = <<>> /\ clock = 0 /\ stop_training = FALSE
    /\ locals = [i |-> 1, fidelities |-> <<>>, runtimes |-> <<>>,
                 errors |-> <<>>, samples |-> <<>>, burn_in |-> <<>>,
                 steps |-> <<>>, runtime10 |-> <<>>]
    /\ \E f \in [1..NumTrials -> Files \cup {Missing}] :
         dir = [n \in {TrialName(PyInt(i), Txt) :
                         i \in {t \in 1..NumTrials : f[t] # Missing}} |->
                  f[CHOOSE i \in 1..NumTrials : TrialName(PyInt(i), Txt) = n]]
    /\ pc = "read"
    /\ error = "None"

\* One turn of the loop over the trials; lines 152-173.
ReadTrial ==
    /\ pc = "read"
    /\ LET name == TrialName(PyInt(locals.i), Txt)
       IN  IF name \notin DOMAIN dir
           THEN /\ pc' = "failed"
                /\ error' = "FileNotFoundError"
                /\ UNCHANGED locals
           ELSE \E read \in {LinesLoop(ReadLines(dir[name]), 0,
                               [err |-> "None", samples |-> locals.samples,
                                burn_in |-> locals.burn_in,
                                steps |-> locals.steps,
                                fidelitiesList |-> <<>>, errorsList |-> <<>>,
                                runtimesList |-> <<>>])} :
                  IF read.err # "None"
                  THEN /\ pc' = "failed"
                       /\ error' = read.err
                       /\ UNCHANGED locals
                  ELSE /\ locals' =
                            [locals EXCEPT
                               !.samples = read.samples,
                               !.burn_in = read.burn_in,
                               !.steps = read.steps,
                               !.fidelities = Append(@, read.fidelitiesList),
                               !.runtimes = Append(@, read.runtimesList),
                               !.errors = Append(@, read.errorsList),
                               !.i = @ + 1]
                       /\ pc' = IF locals.i = NumTrials THEN "runtime10"
                                ELSE "read"
                       /\ UNCHANGED error
    /\ UNCHANGED <<evalVars, args, metric, timer, clock, stop_training, dir>>

\* RuntimeSeries that takes the last row of each trial
RuntimeSeries_last(runtimes) ==
    IF \E i \in 1..Len(runtimes) : ~InRange(runtimes[i], -1)
    THEN Raise("IndexError")
    ELSE Ok([i \in 1..Len(runtimes) |-> PyIndex(runtimes[i], -1)])

\* Lines 175-177: runtimes[i][10] of every trial; TargetIndex is the 10.
RuntimeSeries(runtimes) ==
    IF \E i \in 1..Len(runtimes) : ~InRange(runtimes[i], TargetIndex)
    THEN Raise("IndexError")
    ELSE Ok([i \in 1..Len(runtimes) |-> PyIndex(runtimes[i], TargetIndex)])

Runtime10 ==
    /\ pc = "runtime10"
    /\ \E series \in {RuntimeSeries(locals.runtimes)} :
         IF series.err # "None"
         THEN /\ pc' = "failed"
              /\ error' = series.err
              /\ UNCHANGED locals
         ELSE /\ locals' = [locals EXCEPT !.runtime10 = series.val]
              /\ pc' = "compare"
              /\ UNCHANGED error
    /\ UNCHANGED <<evalVars, args, metric, timer, clock, stop_training, dir>>

\* Lines 179-183: the plot of runtime10 over the trials.
PlotRuntimes ==
    /\ pc = "compare"
    /\ dir' = WriteFile(dir, RTCompareName, Figure)
    /\ pc' = "trials"
    /\ UNCHANGED <<evalVars, args, metric, timer, clock, stop_training,
                   locals, error>>

\* The figures of the trials 1..n
RECURSIVE SaveFigures(_, _)
SaveFigures(d, n) ==
    IF n = 0 THEN d
    ELSE WriteFile(SaveFigures(d, n - 1), TrialName(PyInt(n), Png), Figure)

\* Lines 185-200: one figure per trial, titled with its samples, burn_in and
\* steps.
PlotTrials ==
    /\ pc = "trials"
    /\ LET n == Len(locals.errors)
           titled == {i \in 1..n : /\ i <= Len(locals.samples)
                                   /\ i <= Len(locals.burn_in)
                                   /\ i <= Len(locals.steps)}
           done == Max({0} \cup {i \in 1..n : 1..i \subseteq titled})
       IN  /\ dir' = SaveFigures(dir, done)
           /\ pc' = IF done = n THEN "done" ELSE "failed"
           /\ error' = IF done = n THEN "None" ELSE "IndexError"
    /\ UNCHANGED <<evalVars, args, metric, timer, clock, stop_training, locals>>

NextAnalysis == ReadTrial \/ Runtime10 \/ PlotRuntimes \/ PlotTrials
SpecAnalysis == InitAnalysis /\ [][NextAnalysis]_vars

-----------------------------------------------------------------------------
(* Properties of the evaluator *)

\* The entries are those of epochs p, 2p, ... up to the last finished epoch.
EveryPth(p) ==
    /\ Len(History) = epoch \div p
    /\ \A k \in 1..Len(History) : History[k][1] = k * p

StrictlyIncreasing(h) ==
    \A i \in 1..Len(h), j \in 1..Len(h) : i < j => h[i][1] < h[j][1]

\* C1: with a period p >= 1, a fit that starts from an empty history and
\* calls on_epoch_end once per epoch, in order, leaves floor(epoch / p)
\* entries, the k-th of them carrying iteration number k * p.
C1_PeriodicHistory ==
    (inOrder /\ evaluator.period >= 1) => EveryPth(evaluator.period)

C1_Witness ==
    /\ inOrder /\ evaluator.period = 2 /\ epoch = 4
    /\ Len(History) = 2 /\ History[2][1] = 4

\* C2, as claimed: get_value(name, -1) and get_value(name) equal last[name]
\* when the history is non-empty, and with an empty history both fail with
\* the same kind of error.
C2_Original ==
    \A name \in AskNames :
        IF evaluator.observable_statistics # <<>>
        THEN /\ SameResult(get_value(name, <<-1>>), last_value(name))
             /\ SameResult(get_value(name, None), last_value(name))
        ELSE /\ get_value(name, <<-1>>).err # "None"
             /\ last_value(name).err = get_value(name, <<-1>>).err

\* C2, amended: after on_epoch_end and clear_history calls, get_value(name, -1)
\* and get_value(name) equal last[name] when the history is non-empty; with an
\* empty history get_value fails with IndexError, while last is the empty
\* dictionary, so last[name] fails with KeyError.
C2_LatestValue ==
    \A name \in AskNames :
        IF evaluator.observable_statistics # <<>>
        THEN /\ SameResult(get_value(name, <<-1>>), last_value(name))
             /\ SameResult(get_value(name, None), last_value(name))
        ELSE /\ get_value(name, <<-1>>).err = "IndexError"
             /\ get_value(name, None).err = "IndexError"
             /\ heap[evaluator.last] = EmptyDict
             /\ last_value(name).err = "KeyError"

C2_Witness ==
    /\ Len(History) >= 2
    /\ History[1][2] # History[Len(History)][2]
    /\ get_value("Heisenberg1DEnergy", None).err = "None"
    /\ get_value("Heisenberg1DEnergy", None).val
         = History[Len(History)][2]["Heisenberg1DEnergy"]

\* C3: len(evaluator) is the number of entries of observable_statistics.
C3_LenCountsEntries ==
    /\ __len__.err = "None"
    /\ __len__.val = Len(evaluator.observable_statistics)

\* A step keeps every entry that was in the history, in place and unchanged.
PrefixPreserved ==
    LET old == HistoryOf(evaluator, heap)
        new == HistoryOf(evaluator', heap')
    IN  /\ Len(new) >= Len(old)
        /\ \A i \in 1..Len(old) : new[i] = old[i]

\* C8, as claimed: the iteration numbers are strictly increasing in every
\* state, and only clear_history removes or changes an entry.
C8_Original ==
    [][StrictlyIncreasing(History') /\ (ClearHistory \/ PrefixPreserved)]_vars

\* C8, amended: only clear_history removes or changes an entry, also when the
\* evaluator is reused for a further fit and when the dictionary in last is
\* written to; the iteration numbers are strictly increasing within a fit
\* that started from an empty history (a further fit without clear_history
\* restarts them at 1).
C8_AppendOnly ==
    [][/\ inOrder' => StrictlyIncreasing(History')
       /\ ClearHistory \/ PrefixPreserved]_vars

C8_Witness ==
    /\ ~inOrder
    /\ Len(History) >= 3
    /\ ~StrictlyIncreasing(History)
    /\ heap[evaluator.last] # History[Len(History)][2]

\* C9, as claimed: an evaluator with a period <= 0 never measures and never
\* records an entry.
C9_Original ==
    evaluator.period <= 0 => (History = <<>> /\ measured = 0)

\* C9, amended: the constructor accepts any period; with period 0 every
\* on_epoch_end call raises ZeroDivisionError before anything is measured and
\* nothing is ever recorded; with a negative period p no error is raised and
\* an entry is recorded at every epoch divisible by -p.
C9_NonPositivePeriod ==
    /\ evaluator.period = 0 =>
          /\ History = <<>> /\ measured = 0
          /\ fitError = (IF epoch > 0 THEN "ZeroDivisionError" ELSE "None")
    /\ evaluator.period < 0 =>
          /\ fitError = "None"
          /\ inOrder => EveryPth(-evaluator.period)

C9_Witness ==
    /\ evaluator.period = -2 /\ inOrder /\ epoch = 4
    /\ Len(History) = 2 /\ measured = 2

-----------------------------------------------------------------------------
(* Properties of trainEnergy *)

\* The trial id in the name of a trial artifact, "Trial<id>.txt" or
\* "Trial<id>.png"; -1 for any other name.
TrialIdOf(name) ==
    LET id == SubSeq(name, 6, Len(name) - 4)
    IN  IF /\ Len(name) > 9
           /\ SubSeq(name, 1, 5) = <<"T", "r", "i", "a", "l">>
           /\ SubSeq(name, Len(name) - 3, Len(name)) \in {Txt, Png}
           /\ AllDigits(id)
        THEN NatVal(id) ELSE -1
TrialIds(names) == {TrialIdOf(n) : n \in names} \ {-1}

\* C4: with trialNum = "Next" and a directory that holds the trials S, the
\* record and the plot are written under the id max(S) + 1; with an empty
\* directory trainEnergy fails and writes nothing.
C4_AutoNumbering ==
    args.trialNum = Next_ =>
        /\ pc \in {"plot", "write", "done"} => locals.files # {}
        /\ pc = "failed" => (error = "IndexError" /\ DOMAIN dir = {})
        /\ pc = "done" =>
             LET next == PyInt(Max(TrialIds(locals.files)) + 1)
             IN  /\ TrialName(next, Txt) \in DOMAIN dir
                 /\ TrialName(next, Png) \in DOMAIN dir
                 /\ dir[TrialName(next, Txt)] # OldRecord

\* The data row of the i-th recorded iteration, from the callbacks' histories.
RowOf(i) ==
    LET stats == History[i][2]["Heisenberg1DEnergy"]
    IN  FloatStr(Round(Fin(metric[i][2]), 3)) \o Sep
        \o FloatStr(Round(RelativeError(Fin(stats.mean), locals.H), 6)) \o Sep
        \o FloatStr(Round(Fin(timer.epochTimes[i] * Unit), 3)) \o Sep
        \o FloatStr(Round(Fin(stats.mean), 5)) \o Sep
        \o FloatStr(Round(Fin(stats.variance), 5)) \o Sep
        \o FloatStr(Round(Fin(stats.std_error), 5)) \o Sep \o <<"\n">>

\* The lines of the record this run wrote, after the header row.
WrittenRows ==
    LET lines == ReadLines(dir[TrialName(args.trialNum, Txt)])
    IN  SubSeq(lines, 5, Len(lines))

-----------------------------------------------------------------------------
(* Properties of analysis *)

TrialFile(i) == TrialName(PyInt(i), Txt)
\* The lines of trial i after the header row.
DataLines(i) ==
    LET lines == ReadLines(dir[TrialFile(i)])
    IN  SubSeq(lines, 5, Len(lines))
Rounded(series, nd) == [k \in 1..Len(series) |-> Round(series[k], nd)]
IsNumber(t) == ParseFloat(t).err = "None"

\* C5: of a record that trainEnergy wrote, analysis reads back, row for row
\* and in order, the written (rounded) fidelity, relative error and runtime
\* and the written samples, burn_in and steps; reading it never fails, so
\* the header row is not parsed as data, and no row is skipped.
C5_RoundTrip ==
    \A i \in 1..NumTrials : \A r \in Runs :
        (TrialFile(i) \in DOMAIN dir /\ dir[TrialFile(i)] = RecordOf(r)) =>
            /\ ~(pc = "failed" /\ locals.i = i)
            /\ i < locals.i =>
                 /\ locals.fidelities[i] = Rounded(r.fidelities, 3)
                 /\ locals.errors[i] = Rounded(r.relativeErrors, 6)
                 /\ locals.runtimes[i] = Rounded(r.runtimes, 3)
                 /\ locals.samples[i] = IntStr(r.numSamples2)
                 /\ locals.burn_in[i] = IntStr(r.burn_in)
                 /\ locals.steps[i] = IntStr(r.steps)

C5_Witness ==
    /\ pc = "done"
    /\ \A i \in 1..NumTrials : \E r \in Runs : dir[TrialFile(i)] = RecordOf(r)
    /\ \E i \in 1..NumTrials : locals.errors[i][1] = Inf
    /\ \E i \in 1..NumTrials :
         /\ Len(locals.fidelities[i]) >= 2
         /\ locals.errors[i][1].kind = "fin" /\ locals.errors[i][1].v > 0
         /\ locals.fidelities[i][1] # locals.fidelities[i][2]
         /\ locals.runtimes[i][1] # locals.runtimes[i][2]

\* A line of six numeric fields between white space.
SixNumbers(line) ==
    LET f == FieldsOf(line)
    IN  Len(f) = 6 /\ \A k \in 1..6 : IsNumber(f[k])

\* C6, as claimed: when a data line of a trial record is not six numeric
\* fields between white space, analysis fails at that trial (with ValueError
\* or IndexError) and never goes on past it with values of the line.
C6_MalformedFails ==
    \A i \in 1..NumTrials :
        (/\ TrialFile(i) \in DOMAIN dir
         /\ \E k \in 1..Len(DataLines(i)) : ~SixNumbers(DataLines(i)[k])) =>
            /\ locals.i <= i
            /\ (pc = "failed" /\ locals.i = i) =>
                   error \in {"ValueError", "IndexError"}

\* The pieces of a line between single spaces hold numbers at the positions
\* 0, 2 and 4.
Readable(line) ==
    LET pieces == Split(Strip(line, "\n"), " ")
    IN  /\ Len(pieces) >= 5
        /\ IsNumber(pieces[1]) /\ IsNumber(pieces[3]) /\ IsNumber(pieces[5])
PieceValue(line, k) == ParseFloat(Split(Strip(line, "\n"), " ")[k + 1]).val

\* C6: a data line makes analysis fail (with ValueError or IndexError, at
\* its trial, no later trial being read) exactly when its pieces between
\* single spaces lack a number at position 0, 2 or 4; any other line is
\* accepted and its three values are used, also when it has five fields.
C6_ReadableRows ==
    \A i \in 1..NumTrials :
        TrialFile(i) \in DOMAIN dir =>
            IF \E k \in 1..Len(DataLines(i)) : ~Readable(DataLines(i)[k])
            THEN /\ locals.i <= i
                 /\ (pc = "failed" /\ locals.i = i) =>
                        error \in {"ValueError", "IndexError"}
            ELSE /\ ~(pc = "failed" /\ locals.i = i)
                 /\ i < locals.i =>
                      /\ Len(locals.fidelities[i]) = Len(DataLines(i))
                      /\ \A k \in 1..Len(DataLines(i)) :
                           /\ locals.fidelities[i][k]
                                = PieceValue(DataLines(i)[k], 0)
                           /\ locals.errors[i][k]
                                = PieceValue(DataLines(i)[k], 2)
                           /\ locals.runtimes[i][k]
                                = PieceValue(DataLines(i)[k], 4)

C6_Witness ==
    /\ pc = "done"
    /\ \E i \in 1..NumTrials :
         \E k \in 1..Len(DataLines(i)) :
            /\ Len(FieldsOf(DataLines(i)[k])) = 5
            /\ Len(locals.runtimes[i]) = Len(DataLines(i))
            /\ locals.runtimes[i][k] = PieceValue(DataLines(i)[k], 4)
    /\ \E i \in 1..NumTrials :
         \A k \in 1..Len(DataLines(i)) : SixNumbers(DataLines(i)[k])

\* The fields of a line are separated, and followed, by two spaces.
TwoSpaced(line) == Strip(line, "\n") = Join(FieldsOf(line), Sep)

ShortTrials ==
    {i \in 1..NumTrials : /\ TrialFile(i) \in DOMAIN dir
                          /\ Len(DataLines(i)) < TargetIndex + 1}

\* C10: the series runtime10 has one value per trial, in the order of the
\* trials, and the value of trial i is the runtime field of its row at
\* TargetIndex; when a trial has fewer than TargetIndex + 1 rows, analysis
\* fails with IndexError, builds no series and saves no plot of it.
C10_RuntimeSeries ==
    /\ pc \in {"compare", "trials", "done"} =>
         /\ Len(locals.runtime10) = NumTrials
         /\ \A i \in 1..NumTrials :
              /\ Len(DataLines(i)) >= TargetIndex + 1
              /\ locals.runtime10[i] = locals.runtimes[i][TargetIndex + 1]
              /\ TwoSpaced(DataLines(i)[TargetIndex + 1]) =>
                   Ok(locals.runtime10[i])
                     = ParseFloat(FieldsOf(DataLines(i)[TargetIndex + 1])[3])
              /\ \A r \in Runs :
                   dir[TrialFile(i)] = RecordOf(r) =>
                     locals.runtime10[i]
                       = Round(r.runtimes[TargetIndex + 1], 3)
    /\ ShortTrials # {} =>
         /\ pc \notin {"compare", "trials", "done"}
         /\ locals.runtime10 = <<>>
         /\ RTCompareName \notin DOMAIN dir
         /\ (locals.i > NumTrials /\ pc # "runtime10") =>
                (pc = "failed" /\ error = "IndexError")

C10_Witness ==
    /\ pc = "done"
    /\ Len(locals.runtime10) = NumTrials
    /\ locals.runtime10[1] # locals.runtime10[2]
    /\ RTCompareName \in DOMAIN dir
    /\ \A i \in 1..NumTrials : \E r \in Runs : dir[TrialFile(i)] = RecordOf(r)

====
